---- MODULE Spec2Model ----
(***************************************************************************)
(* Serving core of the Kronos A-share forecasting service: the model       *)
(* lifecycle manager (ModelManager), the admission control of              *)
(* PredictionService.predict_stock (asyncio.Semaphore + thread pool) and   *)
(* the borrow/release protocol between them.                               *)
(*                                                                         *)
(* The repository's backend sources (backend/app/services/*.py) are known  *)
(* only through the design document (src/unnamed/part_000), the README and *)
(* the frontend callers.  What the design document shows as code is        *)
(* modelled from that code; the lifecycle operations it does not show      *)
(* (switch, reload, unload, borrow/release) follow the specification.      *)
(*                                                                         *)
(* Specifications of the backend: Spec is the serving core as the design   *)
(* document shows it; FairSpec adds the scheduling assumptions needed for  *)
(* progress; ServiceSpec puts the result cache and the validation of the   *)
(* input series around the admission controller, on a service whose        *)
(* start-up load has succeeded; SwitchSpec follows such a call while       *)
(* variants are switched; StatusSpec adds status() to the serving core.    *)
(*                                                                         *)
(* Specifications of the front end, modelled from its sources: AppSpec is  *)
(* App.handlePredict with the alignment of predictions and actual records; *)
(* UISpec is the ModelStatus panel beside the prediction form.             *)
(***************************************************************************)
EXTENDS Integers, FiniteSets, Sequences, TLC

(***************************************************************************)
(* Bounds of the model.                                                    *)
(***************************************************************************)
\* concurrent predict callers
NumRequests == 2
\* concurrent callers of the lifecycle operations
NumAdmins == 2
\* configured admission capacity (Config.MAX_CONCURRENT_REQUESTS, default 10,
\* scaled down so that NumRequests exceeds it)
MaxConcurrentRequests == 1

Reqs == 1..NumRequests
Admins == 1..NumAdmins

(***************************************************************************)
(* VariantCatalog: the three Kronos variants, and the identifiers callers  *)
(* pass to switchVariant (one of them not catalogued).                     *)
(***************************************************************************)
NoVariant == "none"
VariantCatalog == {"kronos-mini", "kronos-small", "kronos-base"}
DefaultVariant == "kronos-small"
SwitchInputs == {"kronos-small", "kronos-base", "kronos-large"}

\* VariantConfig.contextLength, the "上下文长度" column of the variants table
ContextLength(v) == IF v = "kronos-mini" THEN 2048 ELSE 512

\* lengths of the history _get_stock_data may return: one that fits the
\* default variant exactly and one that is a record too long for it
SeriesLengths == {512, 513}

(***************************************************************************)
(* ModelHandle: an identified in-memory instance of one variant.           *)
(***************************************************************************)
MaxHandles == NumRequests + NumAdmins + 1
NoHandle == [id |-> 0, variant |-> NoVariant]

\* mutant: the artifact name is hard-coded, every load yields the default variant
HandleHardcoded(i, v) == [id |-> i, variant |-> DefaultVariant]

\* the tokenizer, model and predictor load_model builds for variant v
Handle(i, v) == [id |-> i, variant |-> v]

(***************************************************************************)
(* LifecycleState.                                                         *)
(***************************************************************************)
Unloaded == [tag |-> "Unloaded", variant |-> NoVariant, from |-> NoVariant]
Loading(v) == [tag |-> "Loading", variant |-> v, from |-> NoVariant]
Ready(v) == [tag |-> "Ready", variant |-> v, from |-> NoVariant]
Switching(f, v) == [tag |-> "Switching", variant |-> v, from |-> f]
Failed(v) == [tag |-> "Failed", variant |-> v, from |-> NoVariant]

NoOwner == 0
IdleAdmin == [op |-> "none", arg |-> NoVariant, phase |-> "idle", handle |-> NoHandle]
NoCall == [op |-> "none", arg |-> NoVariant, res |-> "none"]
NoResult == [req |-> 0, res |-> "none"]
NoJob == [st |-> "none", handle |-> NoHandle]
NoKey == [code |-> "none", variant |-> NoVariant]
\* a forecast: the call that computed it and the variant of the predictor
\* that produced it
ForecastOf(r, v) == [call |-> r, variant |-> v]
NoForecast == ForecastOf(0, NoVariant)
\* what the dispatched work produced, with the variant it ran on
Outcome(o, v) == [out |-> o, variant |-> v]
NoOutcome == Outcome("none", NoVariant)
NoServed == [req |-> 0, key |-> NoKey, val |-> NoForecast, hit |-> FALSE]

\* front end: no stock code, useState(null) and useState([]) of App, and the
\* empty string the ModelStatus panel starts its model names with
NoCode == "none"
NoPrediction == [code |-> NoCode, predictions |-> <<>>]
NoActual == [code |-> NoCode, rows |-> <<>>]
NoModel == ""

VARIABLES
  state,       \* LifecycleState of the manager
  predictor,   \* ModelManager._predictor: the current handle, or NoHandle
  resident,    \* fully loaded handles held in memory
  partial,     \* handles under construction by a load
  model_lock,  \* ModelManager._model_lock: NoOwner or the admin holding it
  borrows,     \* outstanding borrows of the current handle
  admin,       \* per lifecycle caller: the call in progress and its phase
  lastCall,    \* the lifecycle call that returned last, with its result
  semaphore,   \* PredictionService.semaphore: free admission slots
  holds,       \* per request: whether it holds an AdmissionSlot
  rpc,         \* per request: position of the predict call
  lastResult,  \* the predict call that returned last, with its result
  job,         \* per request: the work dispatched to the executor
  cache,       \* ResultCache: the stored entries
  now,         \* the clock the cache reads
  key,         \* per request: the cache key of the call in progress
  result,      \* per request: what the dispatched work produced
  served,      \* the forecast, if the call that returned last returned one:
               \* its value and whether it came from the cache
  loading,            \* App: the busy flag of handlePredict
  historicalData,     \* App: the stock whose history is shown
  predictionData,     \* App: the prediction shown, its stock and its dates
  actualData,         \* App: the actual records shown, their stock and dates
  predictAt,          \* App: where handlePredict is suspended
  request,            \* App: the stock code of the request being handled
  reloading,          \* ModelStatus: the busy flag of handleReloadModel
  switching,          \* ModelStatus: the busy flag of handleSwitchModel
  switchModalVisible, \* ModelStatus: the switch dialog is open
  selectedModel,      \* ModelStatus: the model chosen in the dialog
  currentModel,       \* ModelStatus: the model the backend last reported
  reloadAt,           \* ModelStatus: where handleReloadModel is suspended
  switchAt,           \* ModelStatus: where handleSwitchModel is suspended
  notice              \* ModelStatus: the message shown last

\* the variables of the lifecycle manager and the admission controller
coreVars == <<state, predictor, resident, partial, model_lock, borrows, admin, lastCall,
              semaphore, holds, rpc, lastResult, job>>

\* the lifecycle manager's part of them
lifecycleVars == <<state, predictor, resident, partial, model_lock, admin, lastCall>>

\* the variables of the result cache and of the calls that go through it
cacheVars == <<cache, now, key, result, served>>

\* the state of the App component and of the ModelStatus panel
appVars == <<loading, historicalData, predictionData, actualData, predictAt, request>>
panelVars == <<reloading, switching, switchModalVisible, selectedModel, currentModel,
               reloadAt, switchAt, notice>>
uiVars == <<appVars, panelVars>>

vars == <<state, predictor, resident, partial, model_lock, borrows, admin, lastCall,
          semaphore, holds, rpc, lastResult, job, cache, now, key, result, served,
          loading, historicalData, predictionData, actualData, predictAt, request,
          reloading, switching, switchModalVisible, selectedModel, currentModel,
          reloadAt, switchAt, notice>>

\* App as useState leaves it
AppInit ==
  /\ loading = FALSE
  /\ historicalData = NoCode
  /\ predictionData = NoPrediction
  /\ actualData = NoActual
  /\ predictAt = "idle"
  /\ request = NoCode

\* the ModelStatus panel as useState leaves it
PanelInit ==
  /\ reloading = FALSE
  /\ switching = FALSE
  /\ switchModalVisible = FALSE
  /\ selectedModel = NoModel
  /\ currentModel = NoModel
  /\ reloadAt = "idle"
  /\ switchAt = "idle"
  /\ notice = "none"

Init ==
  /\ state = Unloaded
  /\ predictor = NoHandle
  /\ resident = {}
  /\ partial = {}
  /\ model_lock = NoOwner
  /\ borrows = 0
  /\ admin = [a \in Admins |-> IdleAdmin]
  /\ lastCall = NoCall
  /\ semaphore = MaxConcurrentRequests
  /\ holds = [r \in Reqs |-> FALSE]
  /\ rpc = [r \in Reqs |-> "idle"]
  /\ lastResult = NoResult
  /\ job = [r \in Reqs |-> NoJob]
  /\ cache = {}
  /\ now = 0
  /\ key = [r \in Reqs |-> NoKey]
  /\ result = [r \in Reqs |-> NoOutcome]
  /\ served = NoServed
  /\ AppInit
  /\ PanelInit

(***************************************************************************)
(* ModelLifecycleManager                                                   *)
(***************************************************************************)
\* mutant: any non-empty identifier is accepted
AnyVariant(v) == v # NoVariant

InCatalog(v) == v \in VariantCatalog

\* mutant: the lock is not consulted
LockIgnored == TRUE

\* async with self._model_lock: the lock is taken only when nobody holds it
LockFree == model_lock = NoOwner

\* the variant reload() switches to
CurrentVariant == state.variant

\* mutant: every switch enters Switching, whatever the state it starts from
AlwaysSwitching(v) == Switching(state.variant, v)

\* the state a switch enters: Ready --switch--> Switching, and
\* Unloaded / Failed (nothing to unload) --> Loading
SwitchEntry(v) ==
  IF state.tag = "Ready" THEN Switching(state.variant, v) ELSE Loading(v)

EntryPhase == IF state.tag = "Ready" THEN "waitBorrows" ELSE "loading"

\* mutant: the switch does not wait for outstanding borrows
BorrowsNotAwaited == TRUE

\* mutant: the release of the last borrow never wakes the waiting switch
NeverNotified == FALSE

\* a switch waits until the last borrow has been released
BorrowsDrained == borrows = 0

Returned(op, v, res) == [op |-> op, arg |-> v, res |-> res]

RejectInvalid(a, op, v) ==
  /\ lastCall' = Returned(op, v, "InvalidVariant")
  /\ UNCHANGED <<state, predictor, resident, partial, model_lock, admin>>

\* mutant: the state is already moved when the lock turns out to be taken
RejectBusyAfterStateChange(a, op, v) ==
  /\ lastCall' = Returned(op, v, "Busy")
  /\ state' = Switching(state.variant, v)
  /\ UNCHANGED <<predictor, resident, partial, model_lock, admin>>

RejectBusy(a, op, v) ==
  /\ lastCall' = Returned(op, v, "Busy")
  /\ UNCHANGED <<state, predictor, resident, partial, model_lock, admin>>

\* mutant: the transition starts without taking the lock
BeginSwitchUnlocked(a, op, v) ==
  /\ model_lock' = model_lock
  /\ state' = SwitchEntry(v)
  /\ admin' = [admin EXCEPT ![a] =
                  [op |-> op, arg |-> v, phase |-> EntryPhase, handle |-> NoHandle]]
  /\ UNCHANGED <<predictor, resident, partial, lastCall>>

BeginSwitch(a, op, v) ==
  /\ model_lock' = a
  /\ state' = SwitchEntry(v)
  /\ admin' = [admin EXCEPT ![a] =
                  [op |-> op, arg |-> v, phase |-> EntryPhase, handle |-> NoHandle]]
  /\ UNCHANGED <<predictor, resident, partial, lastCall>>

\* switchTo(variantId): InvalidVariant, then Busy, otherwise the transition starts
switchTo(a, op, v) ==
  /\ admin[a].phase = "idle"
  /\ IF ~InCatalog(v) THEN RejectInvalid(a, op, v)
     ELSE IF ~LockFree THEN RejectBusy(a, op, v)
     ELSE BeginSwitch(a, op, v)
  /\ UNCHANGED <<borrows, semaphore, holds, rpc, lastResult, job>>

SwitchVariant(a) == \E v \in SwitchInputs : switchTo(a, "switchTo", v)

\* reload() is switchTo(currentVariant)
Reload(a) == switchTo(a, "reload", CurrentVariant)

\* mutant: the "already loaded" check is dropped
AlwaysLoad == TRUE

\* load_model: "if self._predictor is None", only the first call loads
NeedsLoad == predictor = NoHandle

\* mutant: every call loads again, whether or not a predictor is current
EnsureLoadedEveryCall(a) ==
  /\ admin[a].phase = "idle"
  /\ IF LockFree
     THEN /\ model_lock' = a
          /\ state' = Loading(DefaultVariant)
          /\ admin' = [admin EXCEPT ![a] =
                [op |-> "ensureLoaded", arg |-> DefaultVariant,
                 phase |-> "loading", handle |-> NoHandle]]
          /\ UNCHANGED lastCall
     ELSE /\ lastCall' = Returned("ensureLoaded", DefaultVariant, "NoOp")
          /\ UNCHANGED <<state, model_lock, admin>>
  /\ UNCHANGED <<predictor, resident, partial, borrows, semaphore, holds, rpc, lastResult, job>>

\* ensureLoaded(defaultVariant) / load_model under the lock: loads when no
\* predictor is current and no transition is in progress, otherwise a no-op
EnsureLoaded(a) ==
  /\ admin[a].phase = "idle"
  /\ IF NeedsLoad /\ LockFree
     THEN /\ model_lock' = a
          /\ state' = Loading(DefaultVariant)
          /\ admin' = [admin EXCEPT ![a] =
                [op |-> "ensureLoaded", arg |-> DefaultVariant,
                 phase |-> "loading", handle |-> NoHandle]]
          /\ UNCHANGED lastCall
     ELSE /\ lastCall' = Returned("ensureLoaded", DefaultVariant, "NoOp")
          /\ UNCHANGED <<state, model_lock, admin>>
  /\ UNCHANGED <<predictor, resident, partial, borrows, semaphore, holds, rpc, lastResult, job>>

\* the switch holding the lock stops waiting once no borrow is outstanding:
\* the unload step begins
AwaitBorrows(a) ==
  /\ admin[a].phase = "waitBorrows"
  /\ BorrowsDrained
  /\ admin' = [admin EXCEPT ![a].phase = "unloading"]
  /\ UNCHANGED <<state, predictor, resident, partial, model_lock, borrows, lastCall,
                 semaphore, holds, rpc, lastResult, job>>

\* unload of the current handle, releasing its memory
Unload(a) ==
  /\ admin[a].phase = "unloading"
  /\ resident' = resident \ {predictor}
  /\ predictor' = NoHandle
  /\ admin' = [admin EXCEPT ![a].phase = "loading"]
  /\ UNCHANGED <<state, partial, model_lock, borrows, lastCall,
                 semaphore, holds, rpc, lastResult, job>>

InUse == resident \cup partial \cup {job[r].handle : r \in Reqs}
FreeIds == {i \in 1..MaxHandles : \A h \in InUse : h.id # i}
FreshId == CHOOSE i \in FreeIds : \A j \in FreeIds : i <= j

\* load_model: tokenizer and model are fetched, the handle is under construction
BeginLoad(a) ==
  /\ admin[a].phase = "loading"
  /\ FreeIds # {}
  /\ LET h == Handle(FreshId, admin[a].arg) IN
       /\ partial' = partial \cup {h}
       /\ admin' = [admin EXCEPT ![a].phase = "initialising", ![a].handle = h]
  /\ UNCHANGED <<state, predictor, resident, model_lock, borrows, lastCall,
                 semaphore, holds, rpc, lastResult, job>>

\* load_model: the predictor is built and becomes the current one
LoadSucceed(a) ==
  /\ admin[a].phase = "initialising"
  /\ LET h == admin[a].handle IN
       /\ resident' = resident \cup {h}
       /\ partial' = partial \ {h}
       /\ predictor' = h
  /\ state' = Ready(admin[a].arg)
  /\ model_lock' = NoOwner
  /\ lastCall' = Returned(admin[a].op, admin[a].arg, "OK")
  /\ admin' = [admin EXCEPT ![a] = IdleAdmin]
  /\ UNCHANGED <<borrows, semaphore, holds, rpc, lastResult, job>>

\* mutant: the load error is reported with the half-built handle left behind
LoadFailNoCleanup(a) ==
  /\ admin[a].phase \in {"loading", "initialising"}
  /\ state' = Failed(admin[a].arg)
  /\ model_lock' = NoOwner
  /\ lastCall' = Returned(admin[a].op, admin[a].arg, "LoadFailed")
  /\ admin' = [admin EXCEPT ![a] = IdleAdmin]
  /\ UNCHANGED <<predictor, resident, partial, borrows, semaphore, holds, rpc, lastResult, job>>

\* a load error: the handle under construction is cleaned up, then Failed
LoadFail(a) ==
  /\ admin[a].phase \in {"loading", "initialising"}
  /\ partial' = partial \ {admin[a].handle}
  /\ state' = Failed(admin[a].arg)
  /\ model_lock' = NoOwner
  /\ lastCall' = Returned(admin[a].op, admin[a].arg, "LoadFailed")
  /\ admin' = [admin EXCEPT ![a] = IdleAdmin]
  /\ UNCHANGED <<predictor, resident, borrows, semaphore, holds, rpc, lastResult, job>>

(***************************************************************************)
(* PredictionService.predict_stock behind the admission semaphore          *)
(***************************************************************************)
\* mutant: off-by-one, the last slot can be taken twice
SemaphoreOffByOne == semaphore >= 0

\* asyncio.Semaphore.acquire proceeds only while the counter is positive
SemaphoreAvailable == semaphore > 0

\* mutant: the slot is dropped without giving the permit back
ReleaseLeaks(r) ==
  /\ semaphore' = semaphore
  /\ holds' = [holds EXCEPT ![r] = FALSE]

\* leaving "async with self.semaphore": the slot goes back
Release(r) ==
  /\ semaphore' = semaphore + 1
  /\ holds' = [holds EXCEPT ![r] = FALSE]

\* mutant: the ad hoc "predictor is not None" check instead of the state gate
PredictorNotNone == predictor # NoHandle

\* borrowCurrent hands out the current handle only in Ready
CanBorrow == state.tag = "Ready"

\* mutant: the timed-out caller gives the borrow back although the work runs on
BorrowDroppedOnTimeout(r) == IF job[r].st = "running" THEN borrows - 1 ELSE borrows

\* a timed-out caller leaves the borrow to the dispatched work
BorrowsAfterTimeout(r) == borrows

\* a predict call arrives and waits for a slot
Start(r) ==
  /\ rpc[r] = "idle"
  /\ job[r].st = "none"
  /\ rpc' = [rpc EXCEPT ![r] = "waiting"]
  /\ UNCHANGED <<state, predictor, resident, partial, model_lock, borrows, admin,
                 lastCall, lastResult, semaphore, holds, job>>

\* async with self.semaphore: enter
Acquire(r) ==
  /\ rpc[r] = "waiting"
  /\ SemaphoreAvailable
  /\ semaphore' = semaphore - 1
  /\ holds' = [holds EXCEPT ![r] = TRUE]
  /\ rpc' = [rpc EXCEPT ![r] = "admitted"]
  /\ UNCHANGED <<state, predictor, resident, partial, model_lock, borrows, admin,
                 lastCall, lastResult, job>>

\* the request timeout elapses while the caller waits for a slot
TimeoutWaiting(r) ==
  /\ rpc[r] = "waiting"
  /\ rpc' = [rpc EXCEPT ![r] = "idle"]
  /\ lastResult' = [req |-> r, res |-> "Timeout"]
  /\ UNCHANGED <<state, predictor, resident, partial, model_lock, borrows, admin,
                 lastCall, semaphore, holds, job>>

\* predictor = model_manager.get_predictor(); unavailable -> the call fails,
\* otherwise the work is dispatched to the executor with the borrowed handle
BorrowCurrent(r) ==
  /\ rpc[r] = "admitted"
  /\ IF CanBorrow
     THEN /\ borrows' = borrows + 1
          /\ job' = [job EXCEPT ![r] = [st |-> "running", handle |-> predictor]]
          /\ rpc' = [rpc EXCEPT ![r] = "running"]
          /\ UNCHANGED <<semaphore, holds, lastResult>>
     ELSE /\ Release(r)
          /\ rpc' = [rpc EXCEPT ![r] = "idle"]
          /\ lastResult' = [req |-> r, res |-> "ModelUnavailable"]
          /\ UNCHANGED <<borrows, job>>
  /\ UNCHANGED <<state, predictor, resident, partial, model_lock, admin, lastCall>>

\* _sync_predict returns on the executor thread: the borrow is released
JobFinish(r) ==
  /\ job[r].st = "running"
  /\ borrows' = borrows - 1
  /\ job' = [job EXCEPT ![r] =
               IF rpc[r] = "running" THEN [st |-> "finished", handle |-> NoHandle]
               ELSE NoJob]
  /\ UNCHANGED <<state, predictor, resident, partial, model_lock, admin, lastCall,
                 semaphore, holds, rpc, lastResult>>

\* the awaiting caller resumes with the work's outcome and leaves the semaphore
Complete(r) ==
  /\ rpc[r] = "running"
  /\ job[r].st = "finished"
  /\ Release(r)
  /\ \E out \in {"Forecast", "PredictionFailed"} : lastResult' = [req |-> r, res |-> out]
  /\ rpc' = [rpc EXCEPT ![r] = "idle"]
  /\ job' = [job EXCEPT ![r] = NoJob]
  /\ UNCHANGED <<state, predictor, resident, partial, model_lock, borrows, admin, lastCall>>

\* the request timeout elapses while the caller waits for the dispatched work:
\* the caller leaves the semaphore, the executor thread keeps running
TimeoutRunning(r) ==
  /\ rpc[r] = "running"
  /\ Release(r)
  /\ borrows' = BorrowsAfterTimeout(r)
  /\ lastResult' = [req |-> r, res |-> "Timeout"]
  /\ rpc' = [rpc EXCEPT ![r] = "idle"]
  /\ job' = [job EXCEPT ![r] = IF job[r].st = "finished" THEN NoJob ELSE job[r]]
  /\ UNCHANGED <<state, predictor, resident, partial, model_lock, admin, lastCall>>

\* the serving core as the design document shows it: predict_stock goes
\* straight to the semaphore, without a result cache
Next ==
  \/ \E a \in Admins : EnsureLoaded(a) /\ UNCHANGED <<cacheVars, uiVars>>
  \/ \E a \in Admins : SwitchVariant(a) /\ UNCHANGED <<cacheVars, uiVars>>
  \/ \E a \in Admins : Reload(a) /\ UNCHANGED <<cacheVars, uiVars>>
  \/ \E a \in Admins : AwaitBorrows(a) /\ UNCHANGED <<cacheVars, uiVars>>
  \/ \E a \in Admins : Unload(a) /\ UNCHANGED <<cacheVars, uiVars>>
  \/ \E a \in Admins : BeginLoad(a) /\ UNCHANGED <<cacheVars, uiVars>>
  \/ \E a \in Admins : LoadSucceed(a) /\ UNCHANGED <<cacheVars, uiVars>>
  \/ \E a \in Admins : LoadFail(a) /\ UNCHANGED <<cacheVars, uiVars>>
  \/ \E r \in Reqs : Start(r) /\ UNCHANGED <<cacheVars, uiVars>>
  \/ \E r \in Reqs : Acquire(r) /\ UNCHANGED <<cacheVars, uiVars>>
  \/ \E r \in Reqs : TimeoutWaiting(r) /\ UNCHANGED <<cacheVars, uiVars>>
  \/ \E r \in Reqs : BorrowCurrent(r) /\ UNCHANGED <<cacheVars, uiVars>>
  \/ \E r \in Reqs : JobFinish(r) /\ UNCHANGED <<cacheVars, uiVars>>
  \/ \E r \in Reqs : Complete(r) /\ UNCHANGED <<cacheVars, uiVars>>
  \/ \E r \in Reqs : TimeoutRunning(r) /\ UNCHANGED <<cacheVars, uiVars>>

Spec == Init /\ [][Next]_vars

\* Scheduling assumptions for the progress properties: the event loop resumes
\* a coroutine that can run, the semaphore wakes its waiters in turn, and the
\* executor thread of a dispatched prediction returns.  Timeouts are not
\* forced: a call may or may not run into its deadline.
Fairness ==
  /\ \A r \in Reqs :
       /\ SF_vars(Acquire(r) /\ UNCHANGED <<cacheVars, uiVars>>)
       /\ WF_vars(BorrowCurrent(r) /\ UNCHANGED <<cacheVars, uiVars>>)
       /\ WF_vars(JobFinish(r) /\ UNCHANGED <<cacheVars, uiVars>>)
       /\ WF_vars(Complete(r) /\ UNCHANGED <<cacheVars, uiVars>>)
  /\ \A a \in Admins :
       /\ WF_vars(AwaitBorrows(a) /\ UNCHANGED <<cacheVars, uiVars>>)
       /\ WF_vars(Unload(a) /\ UNCHANGED <<cacheVars, uiVars>>)

FairSpec == Spec /\ Fairness

(***************************************************************************)
(* ResultCache: forecasts kept for a short time under                      *)
(* key = (instrument code, horizon, start date, variant).  The calls of    *)
(* this model all ask for the same horizon and start date, so a key is a   *)
(* code and a variant.  An entry is a key, a forecast and the time it was  *)
(* stored at.                                                              *)
(***************************************************************************)
\* ticks of the clock an entry stays valid for ("缓存5分钟")
CacheTTL == 2
\* the clock stops here
MaxTime == 3

\* instrument codes asked for: concurrent calls ask for the same instrument
Codes == {"600000"}

Key(code, v) == [code |-> code, variant |-> v]

\* mutant: off by one, an entry is still served at the very end of its TTL
FreshInclusive(e) == now - e.at <= CacheTTL

\* an entry is valid while now - insertion < TTL
Fresh(e) == now - e.at < CacheTTL

\* the valid entries stored under key k
Lookup(k) == {e \in cache : e.key = k /\ Fresh(e)}

\* mutant: the lookup is skipped, every call goes on to the model
NeverHit(k) == FALSE

\* get(key) finds something: an expired entry counts as absent
Hit(k) == Lookup(k) # {}

\* get(key): the forecast of the entry found
Get(k) == (CHOOSE e \in Lookup(k) : TRUE).val

\* mutant: the entry is added beside the one already stored under the key
PutBeside(k, f) == cache \cup {[key |-> k, val |-> f, at |-> now]}

\* put(key, forecast): unconditional overwrite with a new insertion time;
\* expired entries are evicted on this write
Put(k, f) ==
  {e \in cache : e.key # k /\ Fresh(e)} \cup {[key |-> k, val |-> f, at |-> now]}

(***************************************************************************)
(* PredictionService.predict with the result cache in front of the         *)
(* admission controller: key, lookup, and on a miss the bounded work       *)
(* (borrow, validate the series, predict, release), then put.              *)
(***************************************************************************)
\* mutant: the length of the series is never compared with the context length
NeverTooLong(n, v) == FALSE

\* validation of the input series against the borrowed variant's context length
TooLong(n, v) == n > ContextLength(v)

\* what the dispatched work yields for a series of n records on variant v
WorkOutcomes(n, v) ==
  IF TooLong(n, v) THEN {"InputTooLong"} ELSE {"Forecast", "PredictionFailed"}

\* predict(code): compute the key and look it up; a hit returns the stored
\* forecast at once, a miss queues the call for an admission slot
Predict(r) ==
  \E c \in Codes :
    LET k == Key(c, CurrentVariant) IN
      /\ rpc[r] = "idle"
      /\ job[r].st = "none"
      /\ IF Hit(k)
         THEN /\ served' = [req |-> r, key |-> k, val |-> Get(k), hit |-> TRUE]
              /\ lastResult' = [req |-> r, res |-> "Forecast"]
              /\ UNCHANGED <<rpc, key>>
         ELSE /\ rpc' = [rpc EXCEPT ![r] = "waiting"]
              /\ key' = [key EXCEPT ![r] = k]
              /\ UNCHANGED <<served, lastResult>>
      /\ UNCHANGED <<state, predictor, resident, partial, model_lock, borrows, admin,
                     lastCall, semaphore, holds, job, cache, now, result>>

\* the call gets its slot
Admit(r) == Acquire(r) /\ UNCHANGED cacheVars

\* the deadline passes while the call waits for a slot
GiveUpWaiting(r) ==
  /\ TimeoutWaiting(r)
  /\ key' = [key EXCEPT ![r] = NoKey]
  /\ served' = NoServed
  /\ UNCHANGED <<cache, now, result>>

\* mutant: the error of the lifecycle manager is passed on as it is
SurfaceUnchanged(e) == e

\* the error the service answers with for an error met inside the slot
Surface(e) == IF e = "ModelUnavailable" THEN "ServiceUnavailable" ELSE e

\* inside the slot: borrow the current handle and dispatch the work; when
\* there is no handle to borrow the call ends there, with the slot given back
Borrow(r) ==
  /\ rpc[r] = "admitted"
  /\ IF CanBorrow
     THEN /\ BorrowCurrent(r)
          /\ UNCHANGED <<key, served>>
     ELSE /\ Release(r)
          /\ rpc' = [rpc EXCEPT ![r] = "idle"]
          /\ lastResult' = [req |-> r, res |-> Surface("ModelUnavailable")]
          /\ key' = [key EXCEPT ![r] = NoKey]
          /\ served' = NoServed
          /\ UNCHANGED <<state, predictor, resident, partial, model_lock, borrows,
                         admin, lastCall, job>>
  /\ UNCHANGED <<cache, now, result>>

\* the dispatched work: fetch the series, validate its length against the
\* borrowed variant, predict, release the borrow
Work(r) ==
  /\ JobFinish(r)
  /\ \E n \in SeriesLengths : \E o \in WorkOutcomes(n, job[r].handle.variant) :
       result' = [result EXCEPT ![r] = IF rpc[r] = "running"
                                       THEN Outcome(o, job[r].handle.variant)
                                       ELSE NoOutcome]
  /\ UNCHANGED <<cache, now, key, served>>

\* mutant: a failed work is dispatched again inside the same slot
ReturnRetries(r) ==
  /\ rpc[r] = "running"
  /\ job[r].st = "finished"
  /\ IF result[r].out = "Forecast"
     THEN /\ Release(r)
          /\ lastResult' = [req |-> r, res |-> "Forecast"]
          /\ cache' = Put(key[r], ForecastOf(r, result[r].variant))
          /\ served' = [req |-> r, key |-> key[r],
                        val |-> ForecastOf(r, result[r].variant), hit |-> FALSE]
          /\ rpc' = [rpc EXCEPT ![r] = "idle"]
          /\ key' = [key EXCEPT ![r] = NoKey]
     ELSE /\ rpc' = [rpc EXCEPT ![r] = "admitted"]
          /\ UNCHANGED <<semaphore, holds, lastResult, cache, served, key>>
  /\ job' = [job EXCEPT ![r] = NoJob]
  /\ result' = [result EXCEPT ![r] = NoOutcome]
  /\ UNCHANGED <<state, predictor, resident, partial, model_lock, borrows, admin,
                 lastCall, now>>

\* the caller resumes with the outcome of the work: the slot goes back, a
\* forecast is stored under the key computed at the start and returned
Return(r) ==
  /\ rpc[r] = "running"
  /\ job[r].st = "finished"
  /\ Release(r)
  /\ lastResult' = [req |-> r, res |-> result[r].out]
  /\ IF result[r].out = "Forecast"
     THEN /\ cache' = Put(key[r], ForecastOf(r, result[r].variant))
          /\ served' = [req |-> r, key |-> key[r],
                        val |-> ForecastOf(r, result[r].variant), hit |-> FALSE]
     ELSE /\ served' = NoServed
          /\ UNCHANGED cache
  /\ rpc' = [rpc EXCEPT ![r] = "idle"]
  /\ job' = [job EXCEPT ![r] = NoJob]
  /\ key' = [key EXCEPT ![r] = NoKey]
  /\ result' = [result EXCEPT ![r] = NoOutcome]
  /\ UNCHANGED <<state, predictor, resident, partial, model_lock, borrows, admin,
                 lastCall, now>>

\* the deadline passes while the call waits for its work: nothing is stored
GiveUpRunning(r) ==
  /\ TimeoutRunning(r)
  /\ key' = [key EXCEPT ![r] = NoKey]
  /\ result' = [result EXCEPT ![r] = NoOutcome]
  /\ served' = NoServed
  /\ UNCHANGED <<cache, now>>

\* mutant: only the expired entries are dropped, the valid ones stay
ClearExpiredOnly ==
  /\ cache' = {e \in cache : Fresh(e)}
  /\ lastCall' = Returned("clearCache", NoVariant, "OK")
  /\ UNCHANGED <<state, predictor, resident, partial, model_lock, borrows, admin,
                 semaphore, holds, rpc, lastResult, job, now, key, result, served>>

\* clearCache: invalidateAll drops every entry
ClearCache ==
  /\ cache' = {}
  /\ lastCall' = Returned("clearCache", NoVariant, "OK")
  /\ UNCHANGED <<state, predictor, resident, partial, model_lock, borrows, admin,
                 semaphore, holds, rpc, lastResult, job, now, key, result, served>>

\* time passes
Tick ==
  /\ now < MaxTime
  /\ now' = now + 1
  /\ UNCHANGED <<coreVars, cache, key, result, served>>

\* the service once start-up has loaded the default variant
ServiceInit ==
  /\ state = Ready(DefaultVariant)
  /\ predictor = Handle(1, DefaultVariant)
  /\ resident = {Handle(1, DefaultVariant)}
  /\ partial = {}
  /\ model_lock = NoOwner
  /\ borrows = 0
  /\ admin = [a \in Admins |-> IdleAdmin]
  /\ lastCall = Returned("ensureLoaded", DefaultVariant, "OK")
  /\ semaphore = MaxConcurrentRequests
  /\ holds = [r \in Reqs |-> FALSE]
  /\ rpc = [r \in Reqs |-> "idle"]
  /\ lastResult = NoResult
  /\ job = [r \in Reqs |-> NoJob]
  /\ cache = {}
  /\ now = 0
  /\ key = [r \in Reqs |-> NoKey]
  /\ result = [r \in Reqs |-> NoOutcome]
  /\ served = NoServed
  /\ AppInit
  /\ PanelInit

ServiceNext ==
  \/ \E r \in Reqs : Predict(r) /\ UNCHANGED uiVars
  \/ \E r \in Reqs : Admit(r) /\ UNCHANGED uiVars
  \/ \E r \in Reqs : GiveUpWaiting(r) /\ UNCHANGED uiVars
  \/ \E r \in Reqs : Borrow(r) /\ UNCHANGED uiVars
  \/ \E r \in Reqs : Work(r) /\ UNCHANGED uiVars
  \/ \E r \in Reqs : Return(r) /\ UNCHANGED uiVars
  \/ \E r \in Reqs : GiveUpRunning(r) /\ UNCHANGED uiVars
  \/ ClearCache /\ UNCHANGED uiVars
  \/ Tick /\ UNCHANGED uiVars

ServiceSpec == ServiceInit /\ [][ServiceNext]_vars

(***************************************************************************)
(* The service while an operator switches variants: the calls of           *)
(* ServiceSpec together with the transitions of the lifecycle manager.     *)
(* The clock stands still, so no entry expires and no deadline passes.     *)
(***************************************************************************)
\* the predict calls followed where the lifecycle moves underneath them
FollowedCalls == {1}

SwitchNext ==
  \/ \E r \in FollowedCalls : Predict(r) /\ UNCHANGED uiVars
  \/ \E r \in FollowedCalls : Admit(r) /\ UNCHANGED uiVars
  \/ \E r \in FollowedCalls : Borrow(r) /\ UNCHANGED uiVars
  \/ \E r \in FollowedCalls : Work(r) /\ UNCHANGED uiVars
  \/ \E r \in FollowedCalls : Return(r) /\ UNCHANGED uiVars
  \/ \E a \in Admins : SwitchVariant(a) /\ UNCHANGED <<cacheVars, uiVars>>
  \/ \E a \in Admins : AwaitBorrows(a) /\ UNCHANGED <<cacheVars, uiVars>>
  \/ \E a \in Admins : Unload(a) /\ UNCHANGED <<cacheVars, uiVars>>
  \/ \E a \in Admins : BeginLoad(a) /\ UNCHANGED <<cacheVars, uiVars>>
  \/ \E a \in Admins : LoadSucceed(a) /\ UNCHANGED <<cacheVars, uiVars>>
  \/ \E a \in Admins : LoadFail(a) /\ UNCHANGED <<cacheVars, uiVars>>

SwitchSpec == ServiceInit /\ [][SwitchNext]_vars

(***************************************************************************)
(* status(): the lifecycle state as a monitoring client reads it, at any   *)
(* moment of the serving core with one predict call followed.              *)
(***************************************************************************)
\* mutant: the read queues behind the lifecycle lock, as get_predictor does
StatusWaitsForLock == LockFree

\* status() does not wait for anything
StatusAdmitted == TRUE

\* status() -> LifecycleState
Status ==
  /\ StatusAdmitted
  /\ lastCall' = Returned("status", state.variant, state.tag)
  /\ UNCHANGED <<state, predictor, resident, partial, model_lock, borrows, admin,
                 semaphore, holds, rpc, lastResult, job, cacheVars, uiVars>>

StatusNext ==
  \/ \E a \in Admins : EnsureLoaded(a) /\ UNCHANGED <<cacheVars, uiVars>>
  \/ \E a \in Admins : SwitchVariant(a) /\ UNCHANGED <<cacheVars, uiVars>>
  \/ \E a \in Admins : Reload(a) /\ UNCHANGED <<cacheVars, uiVars>>
  \/ \E a \in Admins : AwaitBorrows(a) /\ UNCHANGED <<cacheVars, uiVars>>
  \/ \E a \in Admins : Unload(a) /\ UNCHANGED <<cacheVars, uiVars>>
  \/ \E a \in Admins : BeginLoad(a) /\ UNCHANGED <<cacheVars, uiVars>>
  \/ \E a \in Admins : LoadSucceed(a) /\ UNCHANGED <<cacheVars, uiVars>>
  \/ \E a \in Admins : LoadFail(a) /\ UNCHANGED <<cacheVars, uiVars>>
  \/ \E r \in FollowedCalls : Start(r) /\ UNCHANGED <<cacheVars, uiVars>>
  \/ \E r \in FollowedCalls : Acquire(r) /\ UNCHANGED <<cacheVars, uiVars>>
  \/ \E r \in FollowedCalls : TimeoutWaiting(r) /\ UNCHANGED <<cacheVars, uiVars>>
  \/ \E r \in FollowedCalls : BorrowCurrent(r) /\ UNCHANGED <<cacheVars, uiVars>>
  \/ \E r \in FollowedCalls : JobFinish(r) /\ UNCHANGED <<cacheVars, uiVars>>
  \/ \E r \in FollowedCalls : Complete(r) /\ UNCHANGED <<cacheVars, uiVars>>
  \/ \E r \in FollowedCalls : TimeoutRunning(r) /\ UNCHANGED <<cacheVars, uiVars>>
  \/ Status

StatusSpec == Init /\ [][StatusNext]_vars

(***************************************************************************)
(* App.handlePredict of the front end: history, prediction, and the actual *)
(* records of the predicted days, aligned on the trading days.  A record   *)
(* is represented by its date; the data shown is tagged with the stock     *)
(* code of the request that fetched it.                                    *)
(***************************************************************************)
\* the variables of the backend, which the front end does not hold
backendVars == <<coreVars, cacheVars>>

\* stock codes entered in the form
StockCodes == {"600000", "000001"}
\* the trading days a response can mention, in calendar order
TradingDays == {1, 2}
\* records in one response
MaxRows == 2

\* item.date as the backend sends it: the day, with or without a time part
RawDates == [day : TradingDays, time : BOOLEAN]
RawRows == UNION {[1..n -> RawDates] : n \in 0..MaxRows}

\* item.date.split('T')[0]
DatePart(raw) == raw.day

\* rows.map(item => ({...item, date: item.date.split('T')[0]}))
DateOnly(rows) == [i \in 1..Len(rows) |-> DatePart(rows[i])]

\* dates.includes(d)
Includes(rows, d) == \E i \in 1..Len(rows) : rows[i] = d

\* rows.filter(row => among.includes(row.date))
Keep(rows, among) == LET In(d) == Includes(among, d) IN SelectSeq(rows, In)

RECURSIVE InsertByDate(_, _)
InsertByDate(d, rows) ==
  IF rows = <<>> THEN <<d>>
  ELSE IF d < Head(rows) THEN <<d>> \o rows
  ELSE <<Head(rows)>> \o InsertByDate(d, Tail(rows))

\* mutant: the lists are left in the order of the responses
Unsorted(rows) == rows

\* rows.sort((a, b) => a.date.localeCompare(b.date))
RECURSIVE SortByDate(_)
SortByDate(rows) ==
  IF rows = <<>> THEN <<>>
  ELSE InsertByDate(rows[Len(rows)], SortByDate(SubSeq(rows, 1, Len(rows) - 1)))

\* actualDates.filter(date => predictionDates.includes(date))
CommonTradingDays(actual, predictions) == Keep(actual, predictions)

\* alignedActual
AlignedActual(actual, predictions) ==
  LET common == CommonTradingDays(actual, predictions) IN
    IF Len(common) > 0 THEN SortByDate(Keep(actual, common)) ELSE actual

\* alignedPredictions
AlignedPredictions(actual, predictions) ==
  LET common == CommonTradingDays(actual, predictions) IN
    IF Len(common) > 0 THEN SortByDate(Keep(predictions, common))
    ELSE Keep(predictions, actual)

\* setActualData(rows) for the request of stock c
ActualOf(c, rows) == IF rows = <<>> THEN NoActual ELSE [code |-> c, rows |-> rows]

\* the ways a handler's request can end
Paths == {"success", "failed", "thrown"}

\* mutant: setLoading(false) at the end of the try block instead of finally
LoadingAfterTryOnly(path) == path = "thrown"

\* finally { setLoading(false) }
LoadingAfter(path) == FALSE

\* the finally block of handlePredict
AppFinally(path) ==
  /\ loading' = LoadingAfter(path)
  /\ predictAt' = "idle"
  /\ request' = NoCode

\* the form is submitted: handlePredict starts and asks for the history
\* (the submit button is disabled while loading)
HandlePredict(c) ==
  /\ ~loading
  /\ predictAt = "idle"
  /\ loading' = TRUE
  /\ predictAt' = "history"
  /\ request' = c
  /\ UNCHANGED <<historicalData, predictionData, actualData>>

\* getStockHistory answers: success stores the history, success=false is
\* passed over, an error ends the handler
HistoryReturns ==
  /\ predictAt = "history"
  /\ \E path \in Paths :
       CASE path = "success" ->
              /\ historicalData' = request
              /\ predictAt' = "predict"
              /\ UNCHANGED <<loading, request>>
         [] path = "failed" ->
              /\ predictAt' = "predict"
              /\ UNCHANGED <<historicalData, loading, request>>
         [] path = "thrown" ->
              /\ AppFinally(path)
              /\ UNCHANGED historicalData
  /\ UNCHANGED <<predictionData, actualData>>

\* predictStock answers, with its predictions drawn from Rows
PredictReturns(Rows) ==
  /\ predictAt = "predict"
  /\ \E path \in Paths :
       IF path = "success"
       THEN \E raw \in Rows : \E today \in TradingDays :
              LET processedPredictions == DateOnly(raw) IN
                /\ predictionData' = [code |-> request, predictions |-> processedPredictions]
                /\ IF Len(processedPredictions) > 0
                   THEN IF processedPredictions[1] <= today
                        THEN /\ predictAt' = "actual"
                             /\ UNCHANGED <<actualData, loading, request>>
                        ELSE /\ actualData' = NoActual
                             /\ AppFinally(path)
                   ELSE /\ AppFinally(path)
                        /\ UNCHANGED actualData
       ELSE /\ AppFinally(path)
            /\ UNCHANGED <<predictionData, actualData>>
  /\ UNCHANGED historicalData

\* getStockActualData answers, with its records drawn from Rows: the inner
\* try block; a failure here only empties the actual data
ActualReturns(Rows) ==
  /\ predictAt = "actual"
  /\ \E path \in Paths :
       IF path = "success"
       THEN \E raw \in Rows :
              LET processedActual == DateOnly(raw)
                  processedPredictions == predictionData.predictions
              IN /\ predictionData' =
                      [predictionData EXCEPT !.predictions =
                          AlignedPredictions(processedActual, processedPredictions)]
                 /\ actualData' =
                      ActualOf(request, AlignedActual(processedActual, processedPredictions))
       ELSE /\ actualData' = NoActual
            /\ UNCHANGED predictionData
  /\ AppFinally("success")
  /\ UNCHANGED historicalData

AppNext ==
  \/ \E c \in StockCodes : HandlePredict(c) /\ UNCHANGED <<backendVars, panelVars>>
  \/ HistoryReturns /\ UNCHANGED <<backendVars, panelVars>>
  \/ PredictReturns(RawRows) /\ UNCHANGED <<backendVars, panelVars>>
  \/ ActualReturns(RawRows) /\ UNCHANGED <<backendVars, panelVars>>

AppSpec == Init /\ [][AppNext]_vars

(***************************************************************************)
(* The ModelStatus panel: the reload button and the switch dialog.  The    *)
(* model information that fetchModelInfo refreshes is display only and is  *)
(* not kept; the points where the handlers wait for it are.                *)
(***************************************************************************)
\* the models offered in the dialog once getAvailableModels has answered
PanelModels == {"kronos-small", "kronos-base"}

\* the first getAvailableModels (useEffect) answers: the options and the
\* current model are known from then on
AvailableModelsFetched ==
  /\ currentModel = NoModel
  /\ switchAt = "idle"
  /\ \E m \in PanelModels : currentModel' = m
  /\ UNCHANGED <<reloading, switching, switchModalVisible, selectedModel,
                 reloadAt, switchAt, notice>>

\* the reload button (disabled while reloading; out of reach behind the
\* open dialog): handleReloadModel starts and posts /model/reload
ClickReload ==
  /\ ~reloading
  /\ ~switchModalVisible
  /\ reloadAt = "idle"
  /\ reloading' = TRUE
  /\ reloadAt' = "reloadModel"
  /\ UNCHANGED <<switching, switchModalVisible, selectedModel, currentModel,
                 switchAt, notice>>

\* reloadModel answers: on success the handler goes on to fetchModelInfo,
\* otherwise it shows the error and ends
ReloadReturns ==
  /\ reloadAt = "reloadModel"
  /\ \E path \in Paths :
       IF path = "success"
       THEN /\ notice' = "reload succeeded"
            /\ reloadAt' = "fetchModelInfo"
            /\ UNCHANGED reloading
       ELSE /\ notice' = "reload failed"
            /\ reloading' = FALSE
            /\ reloadAt' = "idle"
  /\ UNCHANGED <<switching, switchModalVisible, selectedModel, currentModel, switchAt>>

\* fetchModelInfo is back (it catches its own errors): handleReloadModel ends
ReloadRefreshed ==
  /\ reloadAt = "fetchModelInfo"
  /\ reloading' = FALSE
  /\ reloadAt' = "idle"
  /\ UNCHANGED <<switching, switchModalVisible, selectedModel, currentModel,
                 switchAt, notice>>

\* handleShowSwitchModal: the switch button is never disabled
ClickSwitch ==
  /\ ~switchModalVisible
  /\ selectedModel' = currentModel
  /\ switchModalVisible' = TRUE
  /\ UNCHANGED <<reloading, switching, currentModel, reloadAt, switchAt, notice>>

\* Select onChange in the dialog
SelectModel(m) ==
  /\ switchModalVisible
  /\ currentModel # NoModel
  /\ selectedModel' = m
  /\ UNCHANGED <<reloading, switching, switchModalVisible, currentModel,
                 reloadAt, switchAt, notice>>

\* the dialog's confirm button (disabled while switching): handleSwitchModel
\* starts; it posts the switch unless nothing or the current model is chosen
ConfirmSwitch ==
  /\ switchModalVisible
  /\ ~switching
  /\ switchAt = "idle"
  /\ IF selectedModel = NoModel
     THEN /\ notice' = "choose a model"
          /\ UNCHANGED <<switching, switchModalVisible, switchAt>>
     ELSE IF selectedModel = currentModel
     THEN /\ notice' = "already loaded"
          /\ switchModalVisible' = FALSE
          /\ UNCHANGED <<switching, switchAt>>
     ELSE /\ switching' = TRUE
          /\ switchAt' = "switchModel"
          /\ UNCHANGED <<switchModalVisible, notice>>
  /\ UNCHANGED <<reloading, selectedModel, currentModel, reloadAt>>

\* switchModel answers: on success the handler goes on to fetchModelInfo,
\* otherwise it shows the error and ends with the dialog left open
SwitchReturns ==
  /\ switchAt = "switchModel"
  /\ \E path \in Paths :
       IF path = "success"
       THEN /\ notice' = "switch succeeded"
            /\ switchAt' = "fetchModelInfo"
            /\ UNCHANGED switching
       ELSE /\ notice' = "switch failed"
            /\ switching' = FALSE
            /\ switchAt' = "idle"
  /\ UNCHANGED <<reloading, switchModalVisible, selectedModel, currentModel, reloadAt>>

\* fetchModelInfo is back: the handler goes on to fetchAvailableModels
SwitchRefreshed ==
  /\ switchAt = "fetchModelInfo"
  /\ switchAt' = "fetchAvailableModels"
  /\ UNCHANGED <<reloading, switching, switchModalVisible, selectedModel,
                 currentModel, reloadAt, notice>>

\* fetchAvailableModels is back (it catches its own errors), with the current
\* model of the backend or without an answer: the dialog closes and
\* handleSwitchModel ends
SwitchModelsFetched ==
  /\ switchAt = "fetchAvailableModels"
  /\ \E m \in PanelModels \cup {currentModel} : currentModel' = m
  /\ switchModalVisible' = FALSE
  /\ switching' = FALSE
  /\ switchAt' = "idle"
  /\ UNCHANGED <<reloading, selectedModel, reloadAt, notice>>

\* handleCancelSwitch
CancelSwitch ==
  /\ switchModalVisible
  /\ switchModalVisible' = FALSE
  /\ selectedModel' = currentModel
  /\ UNCHANGED <<reloading, switching, currentModel, reloadAt, switchAt, notice>>

\* what the backend answers the App with while the panel is watched
PanelRows == {<<>>, <<[day |-> 1, time |-> TRUE]>>}

\* the page: the ModelStatus panel above the prediction form of App
UINext ==
  \/ AvailableModelsFetched /\ UNCHANGED <<backendVars, appVars>>
  \/ ClickReload /\ UNCHANGED <<backendVars, appVars>>
  \/ ReloadReturns /\ UNCHANGED <<backendVars, appVars>>
  \/ ReloadRefreshed /\ UNCHANGED <<backendVars, appVars>>
  \/ ClickSwitch /\ UNCHANGED <<backendVars, appVars>>
  \/ \E m \in PanelModels : SelectModel(m) /\ UNCHANGED <<backendVars, appVars>>
  \/ ConfirmSwitch /\ UNCHANGED <<backendVars, appVars>>
  \/ SwitchReturns /\ UNCHANGED <<backendVars, appVars>>
  \/ SwitchRefreshed /\ UNCHANGED <<backendVars, appVars>>
  \/ SwitchModelsFetched /\ UNCHANGED <<backendVars, appVars>>
  \/ CancelSwitch /\ UNCHANGED <<backendVars, appVars>>
  \/ \E c \in StockCodes : HandlePredict(c) /\ UNCHANGED <<backendVars, panelVars>>
  \/ HistoryReturns /\ UNCHANGED <<backendVars, panelVars>>
  \/ PredictReturns(PanelRows) /\ UNCHANGED <<backendVars, panelVars>>
  \/ ActualReturns(PanelRows) /\ UNCHANGED <<backendVars, panelVars>>

UISpec == Init /\ [][UINext]_vars

(***************************************************************************)
(* Properties                                                              *)
(***************************************************************************)
Held == {r \in Reqs : holds[r]}
InTransition == {a \in Admins : admin[a].phase # "idle"}

\* C1: in every reachable state at most one ModelHandle, loaded or under
\* construction, is in memory, whatever ensureLoaded, switchTo and reload
\* calls (successful or failing) have been interleaved.
C1_AtMostOneResident == Cardinality(resident \cup partial) <= 1

\* a switch has unloaded the old handle and is constructing the new one
C1_Witness ==
  /\ state.tag = "Switching"
  /\ resident = {}
  /\ Cardinality(partial) = 1
  /\ \E a \in Admins : admin[a].phase = "initialising"

C3_SlotsWithinCapacity == Cardinality(Held) <= MaxConcurrentRequests

\* every slot is held and one more caller is waiting for one
C3_Witness ==
  /\ Cardinality(Held) = MaxConcurrentRequests
  /\ \E r \in Reqs : rpc[r] = "waiting"

\* C4: every acquired slot is released exactly once on every exit path: the
\* free permits plus the held slots always add up to the capacity, a slot is
\* held exactly by the calls between acquisition and return (so not by a call
\* that timed out), and with no request in flight all slots are free.
C4_SlotReleasedExactlyOnce ==
  /\ semaphore + Cardinality(Held) = MaxConcurrentRequests
  /\ \A r \in Reqs : holds[r] <=> rpc[r] \in {"admitted", "running"}
  /\ (\A r \in Reqs : rpc[r] = "idle") => semaphore = MaxConcurrentRequests

\* a call timed out while its dispatched work still runs, and all slots are free
C4_Witness ==
  /\ lastResult.res = "Timeout"
  /\ lastResult.req \in Reqs
  /\ rpc[lastResult.req] = "idle"
  /\ job[lastResult.req].st = "running"
  /\ semaphore = MaxConcurrentRequests

C7_OneTransitionAtATime ==
  /\ Cardinality(InTransition) <= 1
  /\ \A a \in Admins : admin[a].phase # "idle" => model_lock = a
  /\ model_lock # NoOwner => admin[model_lock].phase # "idle"
  /\ state.tag \in {"Loading", "Switching"} <=> InTransition # {}

\* one caller is loading and another caller's switch was turned away
C7_Witness ==
  /\ \E a \in Admins : admin[a].phase = "initialising"
  /\ lastCall.res = "Busy"

\* C8: a switchTo (or reload) with a catalogued variant returns Busy exactly
\* when a transition is in progress; the call leaves the lifecycle state, the
\* handles, the lock and the transition in progress unchanged and leaves
\* nothing pending, and no transition ever starts while another holds the lock.
C8_BusyChangesNothing ==
  [][ /\ (lastCall' # lastCall /\ lastCall'.res = "Busy") =>
           /\ lastCall'.op \in {"switchTo", "reload"}
           /\ lastCall'.arg \in VariantCatalog
           /\ model_lock # NoOwner
           /\ UNCHANGED <<state, predictor, resident, partial, model_lock, borrows, admin>>
      /\ \A a \in Admins : (admin[a].phase = "idle" /\ admin'[a].phase # "idle") =>
           model_lock = NoOwner ]_vars

\* a switchTo of a catalogued variant returned Busy during a switch
C8_Witness ==
  /\ lastCall.op = "switchTo"
  /\ lastCall.res = "Busy"
  /\ lastCall.arg \in VariantCatalog
  /\ state.tag = "Switching"

\* C9: switchVariant with an identifier outside the catalog returns
\* InvalidVariant in every lifecycle state and leaves the state, the handles
\* and the lock unchanged; no transition ever targets such an identifier.
C9_InvalidVariantChangesNothing ==
  /\ [](\A a \in Admins : admin[a].phase # "idle" => admin[a].arg \in VariantCatalog)
  /\ []((lastCall.op = "switchTo" /\ lastCall.arg \notin VariantCatalog)
          => lastCall.res = "InvalidVariant")
  /\ [][ (lastCall' # lastCall /\ lastCall'.arg \notin VariantCatalog) =>
           /\ lastCall'.res = "InvalidVariant"
           /\ UNCHANGED <<state, predictor, resident, partial, model_lock, borrows, admin>> ]_vars

\* an uncatalogued identifier was rejected while a transition holds the lock
C9_Witness ==
  /\ lastCall = Returned("switchTo", "kronos-large", "InvalidVariant")
  /\ state.tag = "Switching"
  /\ model_lock # NoOwner

LifecycleEdges ==
  { <<"Unloaded", "Loading">>, <<"Loading", "Ready">>, <<"Loading", "Failed">>,
    <<"Ready", "Switching">>, <<"Switching", "Ready">>, <<"Switching", "Failed">>,
    <<"Failed", "Loading">> }

C12_ReadyHandleIsOfThatVariant ==
  state.tag = "Ready" =>
    /\ resident = {predictor}
    /\ predictor.variant = state.variant
    /\ partial = {}

\* switchTo(kronos-base) has succeeded: the base handle is the resident one
C12_Witness ==
  /\ state = Ready("kronos-base")
  /\ lastCall = Returned("switchTo", "kronos-base", "OK")
  /\ resident = {Handle(1, "kronos-base")}

\* C13: a successful ensureLoaded ends in Ready with exactly one resident
\* handle; an ensureLoaded made while Ready starts no load, returns NoOp and
\* changes nothing of the lifecycle.
C13_EnsureLoadedIdempotent ==
  /\ [][ \A a \in Admins :
           (/\ admin[a].op = "ensureLoaded"
            /\ admin[a].phase # "idle"
            /\ admin'[a].phase = "idle"
            /\ lastCall'.res = "OK") =>
             state'.tag = "Ready" /\ Cardinality(resident') = 1 /\ partial' = {} ]_vars
  /\ [][ \A a \in Admins :
           (admin[a].phase = "idle" /\ admin'[a].op = "ensureLoaded") =>
             state.tag # "Ready" ]_vars
  /\ [][ (state.tag = "Ready" /\ lastCall' # lastCall /\ lastCall'.op = "ensureLoaded") =>
           /\ lastCall'.res = "NoOp"
           /\ UNCHANGED <<state, predictor, resident, partial, model_lock, borrows, admin>> ]_vars

\* ensureLoaded was called again while Ready and returned without loading
C13_Witness ==
  /\ state = Ready(DefaultVariant)
  /\ lastCall = Returned("ensureLoaded", DefaultVariant, "NoOp")
  /\ Cardinality(resident) = 1

\* C16: once a predict call has returned Timeout, no borrow of the handle is
\* held on its behalf: the work dispatched for it is not running any more.
\* (Timeout is a result of its own, different from ModelUnavailable and
\* InputTooLong.)
C16_NoBorrowAfterTimeout ==
  \A r \in Reqs :
    (rpc[r] = "idle" /\ lastResult = [req |-> r, res |-> "Timeout"]) =>
      /\ job[r].st # "running"
      /\ lastResult.res \notin {"ModelUnavailable", "InputTooLong"}

\* C17: no predict call is dropped: while slots keep being released, a call
\* that has been issued, waiting for a slot or past it, eventually returns
\* (with a forecast, an error or a timeout).
C17_NoCallDropped ==
  \A r \in Reqs : (rpc[r] # "idle") ~> (rpc[r] = "idle")

\* more calls than slots: one call runs while another waits for its slot
C17_Witness ==
  /\ semaphore = 0
  /\ Cardinality({r \in Reqs : rpc[r] = "waiting"}) >= 1
  /\ Cardinality({r \in Reqs : holds[r]}) = MaxConcurrentRequests

ValidEntries(k) == {e \in cache : e.key = k /\ now - e.at < CacheTTL}

\* a step in which call r returns a forecast straight from the cache
HitReturn(r) == served' # served /\ served'.req = r /\ served'.hit

\* C14: a predict call whose key has an unexpired entry returns the stored
\* forecast unchanged, takes no admission slot and borrows nothing; a call is
\* queued for a slot only when its key has no unexpired entry; the stored
\* forecast is the one the storing call returned.
C14_HitBypassesAdmission ==
  /\ [][ \A r \in Reqs : HitReturn(r) =>
           /\ served'.key \in {Key(c, CurrentVariant) : c \in Codes}
           /\ \E e \in ValidEntries(served'.key) : served'.val = e.val
           /\ lastResult' = [req |-> r, res |-> "Forecast"]
           /\ UNCHANGED <<semaphore, holds, borrows, job, rpc, cache, key, result, lifecycleVars>> ]_vars
  /\ [][ \A r \in Reqs : (rpc[r] = "idle" /\ rpc'[r] = "waiting") =>
           ValidEntries(key'[r]) = {} ]_vars
  /\ [][ \A r \in Reqs : (rpc[r] = "running" /\ lastResult' = [req |-> r, res |-> "Forecast"]
                          /\ rpc'[r] = "idle") =>
           /\ ~served'.hit
           /\ \E e \in cache' : e.key = served'.key /\ e.val = served'.val ]_vars

\* a second call got the forecast of an earlier one from the cache while all
\* slots were free
C14_Witness ==
  /\ served.hit
  /\ served.req = 2
  /\ served.val.call = 1
  /\ semaphore = MaxConcurrentRequests
  /\ borrows = 0

\* C15: a call whose series is longer than the context length of the current
\* variant returns InputTooLong without having taken an admission slot.
C15_TooLongBeforeAdmission ==
  [][ \A r \in Reqs :
        (rpc[r] # "idle" /\ rpc'[r] = "idle"
         /\ lastResult' = [req |-> r, res |-> "InputTooLong"]) => ~holds[r] ]_vars

\* C19: get never answers from an expired entry: a forecast comes out of the
\* cache only from an entry with now - insertion < TTL, and an entry past
\* that age is treated as absent.
C19_GetOnlyUnexpired ==
  [][ \A r \in Reqs : HitReturn(r) =>
        /\ \E e \in cache : e.key = served'.key /\ e.val = served'.val
        /\ \A e \in cache :
             (e.key = served'.key /\ e.val = served'.val) => now - e.at < CacheTTL ]_vars

\* a call found the entry it had stored itself expired, and went on to the model
C19_Witness ==
  /\ rpc[1] = "waiting"
  /\ \E e \in cache : e.key = key[1] /\ e.val.call = 1 /\ now - e.at >= CacheTTL

\* C20: the cache holds at most one entry per key; a put replaces whatever was
\* stored under its key by the new forecast with a new insertion time, and
\* nothing else adds or changes an entry, so a get before expiry returns the
\* forecast of the latest put, also after duplicate computations of one key.
C20_OneEntryPerKeyLastPutWins ==
  /\ [](\A e \in cache : \A f \in cache : e.key = f.key => e = f)
  /\ [][ \A r \in Reqs :
           (rpc[r] = "running" /\ rpc'[r] = "idle"
            /\ lastResult' = [req |-> r, res |-> "Forecast"]) =>
             /\ {e \in cache' : e.key = key[r]} =
                  {[key |-> key[r], val |-> ForecastOf(r, result[r].variant), at |-> now]}
             /\ {e \in cache' : e.key # key[r]} \subseteq cache ]_vars
  /\ [][ cache' \subseteq cache
         \/ \E r \in Reqs : rpc[r] = "running" /\ rpc'[r] = "idle"
                            /\ lastResult' = [req |-> r, res |-> "Forecast"] ]_vars
  /\ [][ \A r \in Reqs : HitReturn(r) =>
           \A e \in cache : e.key = served'.key => served'.val = e.val ]_vars

\* a duplicate computation is about to overwrite the still valid entry that
\* the other call stored for the same key
C20_Witness ==
  /\ rpc[1] = "running"
  /\ result[1].out = "Forecast"
  /\ \E e \in cache : e.key = key[1] /\ e.val.call = 2 /\ now - e.at < CacheTTL

\* C21: invalidateAll (clearCache) removes every entry and touches nothing
\* else: the lifecycle state, the handles, the borrows and the slots stay as
\* they are; with the cache empty no call is answered from it, and the cache
\* only fills again by the put of a call that returns a new forecast.
C21_InvalidateAllEmptiesOnly ==
  [][ /\ (lastCall' # lastCall /\ lastCall'.op = "clearCache") =>
           /\ cache' = {}
           /\ UNCHANGED <<state, predictor, resident, partial, model_lock, borrows,
                          admin, semaphore, holds, rpc, job, key, result>>
      /\ cache = {} => \A r \in Reqs : ~HitReturn(r)
      /\ (cache = {} /\ cache' # {}) =>
           \E r \in Reqs : /\ lastResult' = [req |-> r, res |-> "Forecast"]
                            /\ served'.req = r
                            /\ ~served'.hit
                            /\ served'.val.call = r
                            /\ cache' = {[key |-> served'.key, val |-> served'.val,
                                          at |-> now]} ]_vars

\* a forecast was stored and the cache was cleared within its lifetime, while
\* a slot is held and another call, which missed, waits
C21_Witness ==
  /\ lastCall.op = "clearCache"
  /\ cache = {}
  /\ now = 0
  /\ served.req \in Reqs
  /\ ~served.hit
  /\ semaphore < MaxConcurrentRequests
  /\ \E r \in Reqs : rpc[r] = "waiting"

C23_UnavailableWithoutRetry ==
  [][ /\ \A r \in Reqs :
           (rpc[r] = "admitted" /\ rpc'[r] # "admitted" /\ state.tag # "Ready") =>
              /\ lastResult' = [req |-> r, res |-> "ServiceUnavailable"]
              /\ rpc'[r] = "idle"
              /\ job'[r] = NoJob
              /\ ~holds'[r]
              /\ UNCHANGED <<cache, borrows, lifecycleVars>>
      /\ (lastResult' # lastResult /\ lastResult'.res \in {"ServiceUnavailable", "ModelUnavailable"}) =>
           /\ lastResult'.res = "ServiceUnavailable"
           /\ rpc[lastResult'.req] = "admitted"
           /\ state.tag # "Ready" ]_vars

\* a load has failed and a call was answered ServiceUnavailable while the
\* forecast of an earlier call is still in the cache
C23_Witness ==
  /\ state.tag = "Failed"
  /\ lastCall.res = "LoadFailed"
  /\ lastResult = [req |-> 1, res |-> "ServiceUnavailable"]
  /\ rpc[1] = "idle"
  /\ semaphore = MaxConcurrentRequests
  /\ cache # {}

\* C25: every cache entry stored under a key with variant v holds a forecast
\* produced by the predictor of variant v, also when a switch completes
\* between the computation of the key and the borrow.
C25_EntryVariantMatchesKey ==
  \A e \in cache : e.val.variant = e.key.variant

StocksShown == {historicalData, predictionData.code, actualData.code} \ {NoCode}
\* the dates of a list of records
DatesOf(rows) == {rows[i] : i \in 1..Len(rows)}
Increasing(rows) == \A i \in 1..(Len(rows) - 1) : rows[i] <= rows[i + 1]
\* handlePredict ends after the answer to getStockActualData
AlignmentStep == predictAt = "actual" /\ predictAt' = "idle"

\* C26: whenever no handlePredict is running, the history, the prediction and
\* the actual data held by App belong to one and the same stock.
C26_OneStockShown == predictAt = "idle" => Cardinality(StocksShown) <= 1

\* C27: when the fetched actual records and the returned predictions share a
\* date, the predictions and the actual records shown afterwards have the
\* same set of dates, all of them dates of the returned predictions, each
\* list is in increasing date order, and both belong to the request's stock.
C27_CommonDaysOnly ==
  [][ (AlignmentStep
       /\ DatesOf(actualData'.rows) \cap DatesOf(predictionData.predictions) # {}) =>
        /\ DatesOf(predictionData'.predictions) = DatesOf(actualData'.rows)
        /\ DatesOf(predictionData'.predictions) \subseteq DatesOf(predictionData.predictions)
        /\ Increasing(predictionData'.predictions)
        /\ Increasing(actualData'.rows)
        /\ predictionData'.code = request
        /\ actualData'.code = request ]_vars

\* both days were predicted and both have actual records: two rows each, in
\* date order, for the stock whose history is shown
C27_Witness ==
  /\ predictAt = "idle"
  /\ ~loading
  /\ predictionData = [code |-> "600000", predictions |-> <<1, 2>>]
  /\ actualData = [code |-> "600000", rows |-> <<1, 2>>]
  /\ historicalData = "600000"

\* C28: when the fetched actual records and the returned predictions share no
\* date, all predictions the backend returned stay shown beside the actual
\* records.
C28_ShowAllWhenNoCommonDay ==
  [][ (AlignmentStep
       /\ actualData'.rows # <<>>
       /\ DatesOf(actualData'.rows) \cap DatesOf(predictionData.predictions) = {}) =>
        predictionData'.predictions = predictionData.predictions ]_vars

\* C29: the panel never has a reload request and a switch request to the
\* backend in flight at the same time.
C29_NoReloadDuringSwitch == ~(reloadAt = "reloadModel" /\ switchAt = "switchModel")

\* C30: each busy flag is true exactly while its handler runs: App.loading
\* during handlePredict, reloading during handleReloadModel, switching during
\* handleSwitchModel; once a handler has ended, on whatever path, its flag is
\* false.
C30_BusyOnlyWhileRunning ==
  /\ loading <=> predictAt # "idle"
  /\ reloading <=> reloadAt # "idle"
  /\ switching <=> switchAt # "idle"

\* everything is idle after failures: the switch was refused and left the
\* dialog open, and a failed prediction left the previous one beside the new
\* stock's history
C30_Witness ==
  /\ notice = "switch failed"
  /\ switchModalVisible
  /\ ~switching
  /\ ~reloading
  /\ ~loading
  /\ predictAt = "idle"
  /\ historicalData = "000001"
  /\ predictionData.code = "600000"
====
